---- MODULE Spec2Model ----
(***************************************************************************)
(* A model of boilmaster's version manager (src/version/manager.rs), of    *)
(* the search service (src/search/search.rs, src/search/version.rs) and of *)
(* the column filter of the HTTP API (src/http/column_filter.rs).          *)
(*                                                                         *)
(* Spec        the version manager: hydration, the update loop, set_names, *)
(*             the blocking persistence tasks and the watch channel.       *)
(* SpecSearch  one call of Search::search: the limit, the fan-out over the *)
(*             sheets, the fold of their outcomes, the sort and the cut.   *)
(* SpecRetry   the update loop alone, ticking for ever against a provider  *)
(*             whose patch list does not change.                           *)
(* SpecStart   Search::start beside that update loop: the receiver of the  *)
(*             watch channel, the ingests and the cancellation.            *)
(* SpecIngest  one pass of the search version's Version::ingest            *)
(*             (src/search/version.rs): the futures, the index paths and   *)
(*             the indices map, beside one call of Version::search and the *)
(*             lookups of its Executor.                                    *)
(* SpecFilter  ColumnFilter::merge on a pair of filters, and the parser of *)
(*             a filter string (group, filter, struct_entry, array_index). *)
(* SpecLocks   the guards of the versions and names RwLocks that the       *)
(*             manager's operations take and drop, task by task.           *)
(***************************************************************************)
EXTENDS Integers, Sequences, FiniteSets, TLC

(***************************************************************************)
(* Bounds of the model.                                                    *)
(***************************************************************************)
\* The version keys the provider's patch lists can hash to.
Keys == {1, 2}

\* Update passes that find a change, and set_names calls, in one lifetime
\* of the manager.
MaxPasses == 2

MaxCalls == 1

\* Blocking tasks that may still be running, their JoinHandle dropped, when
\* an update pass spawns its own.
MaxDetached == 1

\* Option::None of an Option<VersionKey> (a name that is not in the map).
NoKey == 0

\* Two versions may share a key and differ in their patch paths.
Paths == {"p1", "p2"}

NoVersion == "none"

TAG_LATEST == "latest"

\* The names callers of set_names may use.
Names == {TAG_LATEST, "stable"}

(***************************************************************************)
(* State.                                                                  *)
(***************************************************************************)
VARIABLES
    versions,   \* Manager.versions: key -> patch path of the Version, or NoVersion
    names,      \* Manager.names: name -> key, or NoKey
    channel,    \* current value of the watch channel (the key list, as a set)
    sent,       \* every value sent on the watch channel, in order
    vfile,      \* version-<key>.json: the Version written, or NoFile
    meta,       \* metadata.json: [state, versions, names]
    pc,         \* position of start_inner (hydrate, then the update loop)
    h_names,    \* hydrate: the names of the PersistedMetadata read
    h_ok,       \* hydrate: the result of hydrate_version per key
    u_key,      \* update: key of the Version built in this pass
    u_version,  \* update: the Version built, until it is stored
    u_vacant,   \* update: versions.entry(key) was Entry::Vacant
    u_vtask,    \* update: state of the persist_version blocking task
    u_mtask,    \* update: state of the persist_metadata blocking task
    u_snap,     \* update: the PersistedMetadata persist_metadata serialises
    detached,   \* blocking tasks whose JoinHandle was dropped, still to run
    s_pc,       \* position of the set_names call in progress
    s_keys,     \* set_names: the keys persist_metadata collected from versions
    s_snap,     \* set_names: the PersistedMetadata persist_metadata serialises
    passes,     \* update passes that found a change so far
    calls       \* set_names calls so far

VARIABLES
    pagination_config,  \* Search.pagination_config: [limit_default, limit_max]
    request,            \* the arguments of the call: [limit, sheet_filter]
    outcomes,           \* sheet -> what normalize and Executor::search yield for it
    q_pc,               \* position of the call
    limit,              \* search: the effective limit
    result_limit,       \* search: the limit handed to every index
    sheet_names,        \* search: the sheets the iterator has still to yield
    index_results,      \* search: the accumulator of try_fold, [value, warnings]
    asked,              \* sheet -> the limit Executor::search was called with
    ret                 \* what the call returned

VARIABLES
    start_pc,   \* position of Search::start
    receiver,   \* the version of the channel's value the receiver has seen
    cancel,     \* whether the CancellationToken is cancelled
    ingested    \* the key lists Search::ingest has handed to the provider, in order

VARIABLES
    v_pc,           \* position of Version::ingest
    list,           \* excel.list(): the sheet names of the version
    sheet_results,  \* sheet name -> what its future resolves to
    futures,        \* the sheet names whose future has not completed
    v_indices,      \* ingest: the local map, as [sheet, path] records
    indices,        \* Version.indices: [some, map]
    x_pc,           \* position of Version::search
    observed,       \* search: what it read from the indices cell
    executor,       \* search: Executor.indices, the map the Executor holds
    lookups         \* search: the map every Executor::search resolved its sheet in

VARIABLES
    f_pc,       \* position of the call on ColumnFilters
    raw,        \* deserialize: the string, as the sequence of its tokens
    target,     \* merge: self
    source,     \* merge: source
    f_out       \* what the call yields

VARIABLES
    program,    \* task -> the lock operations and suspension points it runs through
    l_pc,       \* task -> the index of its next operation in its program
    held        \* task -> guard -> how many guards of that kind the task holds

mvars == <<versions, names, channel, sent>>
dvars == <<vfile, meta, detached>>
hvars == <<h_names, h_ok>>
uvars == <<u_key, u_version, u_vacant, u_vtask, u_mtask, u_snap>>
svars == <<s_pc, s_keys, s_snap>>
bvars == <<passes, calls>>
managervars == <<mvars, dvars, pc, hvars, uvars, svars, bvars>>
qvars == <<pagination_config, request, outcomes, q_pc, limit, result_limit, sheet_names, index_results, asked, ret>>
startvars == <<start_pc, receiver, cancel, ingested>>
xvars == <<x_pc, observed, executor, lookups>>
ingestvars == <<v_pc, list, sheet_results, futures, v_indices, indices, xvars>>
\* What the steps of one part of the program leave alone: the variables of
\* the other parts.
filtervars == <<f_pc, raw, target, source, f_out>>
lockvars == <<program, l_pc, held>>
others_manager == <<qvars, startvars, ingestvars, filtervars, lockvars>>
others_q == <<managervars, startvars, ingestvars, filtervars, lockvars>>
others_start == <<managervars, qvars, ingestvars, filtervars, lockvars>>
others_ingest == <<managervars, qvars, startvars, filtervars, lockvars>>
others_filter == <<managervars, qvars, startvars, ingestvars, lockvars>>
others_lock == <<managervars, qvars, startvars, ingestvars, filtervars>>
vars == <<managervars, qvars, startvars, ingestvars, filtervars, lockvars>>

(***************************************************************************)
(* Maps and files.                                                         *)
(***************************************************************************)
NoVersions == [k \in Keys |-> NoVersion]

NoNames == [n \in Names |-> NoKey]

\* HashMap::keys of the versions map.
KeysOf(vs) == {k \in Keys : vs[k] # NoVersion}

\* The names present in the names map.
NamesOf(nm) == {n \in Names : nm[n] # NoKey}

\* A metadata.json that does not exist / that does not parse.
NoMetadata == [state |-> "absent", versions |-> {}, names |-> NoNames]

BadMetadata == [state |-> "partial", versions |-> {}, names |-> NoNames]

\* PersistedMetadata { versions, names } as persist_metadata collects it.
PersistedMetadata(ks, nm) == [state |-> "ok", versions |-> ks, names |-> nm]

AllCatalogs == {PersistedMetadata(ks, nm) : ks \in SUBSET Keys, nm \in [Names -> Keys \cup {NoKey}]}

\* A version-<key>.json that hydrate_version cannot use: no file, or one
\* that a failed write left empty or truncated.
NoFile == "nofile"

\* The catalogs startup finds: those the update passes of an earlier run
\* wrote, which name "latest" at most.
Catalogs == {c \in AllCatalogs : c.names["stable"] = NoKey}

\* What hydrate_version can find of a version file at startup.
StartFiles == {NoFile, "p1"}

\* A version file that was completely written.
Persisted(f) == f \in Paths

(***************************************************************************)
(* The code's decisions, as operators.                                     *)
(***************************************************************************)
\* update: `match versions.entry(key)`: a vacant entry, or an occupied one
\* that differs from the Version just built, is a change.
Vacant(vs, key) == vs[key] = NoVersion

\* A comparison that reports a change for every Version it is handed.
ChangedAlways(vs, key, version) == TRUE

Changed(vs, key, version) == Vacant(vs, key) \/ vs[key] # version

\* An insert that forgets the versions that were there.
InsertVersionAlone(vs, key, version) == [k \in Keys |-> IF k = key THEN version ELSE NoVersion]

\* update: entry.insert(version.clone()) on a change.
InsertVersion(vs, key, version) == [vs EXCEPT ![key] = version]

\* A pass that leaves the names map as it found it.
TagNothing(nm, key) == nm

\* update: names.insert(TAG_LATEST, key).
TagLatest(nm, key) == [nm EXCEPT ![TAG_LATEST] = key]

\* set_names: names.retain(|_, value| *value != key), then names.extend(..).
RetainExtend(nm, key, new_names) == [n \in Names |-> IF n \in new_names THEN key ELSE IF nm[n] = key THEN NoKey ELSE nm[n]]

\* A hydration that installs every name of the catalog.
HydrateNameMapAll(nm, vs, catalog) == [n \in Names |-> IF catalog[n] # NoKey THEN catalog[n] ELSE nm[n]]

\* hydrate: names.insert(name, key) for every catalog name whose key is known.
HydrateNameMap(nm, vs, catalog) == [n \in Names |-> IF catalog[n] # NoKey /\ catalog[n] \in KeysOf(vs) THEN catalog[n] ELSE nm[n]]

\* hydrate_version: the Version read from version-<key>.json, or an error.
HydrateVersionResult(f) == IF Persisted(f) THEN f ELSE NoVersion

\* hydrate: versions.insert(key, version) for every Ok result.
HydrateVersionMap(vs, results) == [k \in Keys |-> IF results[k] # NoVersion THEN results[k] ELSE vs[k]]

\* A broadcast of an empty key list.
BroadcastNoKeys(vs) == {}

\* broadcast: the key list collected from the versions map.
BroadcastKeys(vs) == KeysOf(vs)

\* broadcast: send_if_modified's closure, `&keys != value`.
Modified(value, keys) == keys # value

\* tokio::try_join! over the two persistence futures: an error of either
\* ends the join at once, success needs both.
\* A join that looks at the version file's write only for an error.
TryJoinVersionOnly(v, m) == IF v = "err" THEN "err" ELSE IF v = "ok" /\ m \in {"ok", "err"} THEN "ok" ELSE "pending"

TryJoin(v, m) == IF v = "err" \/ m = "err" THEN "err" ELSE IF v = "ok" /\ m = "ok" THEN "ok" ELSE "pending"

\* What a failed open_config_write / serialisation leaves of a file: the
\* file as it was (open or lock failed) or a created or truncated file.
WriteFailure(f) == {f, NoFile}

\* The same for metadata.json.
MetadataWriteFailure(m) == {m, BadMetadata}

(***************************************************************************)
(* The search service: sheets, limits, outcomes and results.               *)
(***************************************************************************)
\* The sheets of the version's excel list, in the order list.iter() yields.
ExcelList == <<"Action", "Item">>

Sheets == {ExcelList[i] : i \in 1..Len(ExcelList)}

\* The limits are u32; the model keeps their arithmetic and narrows their
\* width, so that the largest value and the wrap of limit + 1 are reached.
LimitBits == 2

U32Max == 2^LimitBits - 1

U32 == 0..U32Max

\* Option::None of the limit argument.
NoLimit == -1

\* The rows an index may return for one sheet, and their scores.
MaxMatches == 2

Scores == {1, 2}

ScoreSeqs == UNION {[1..n -> Scores] : n \in 0..MaxMatches}

\* The variants of Error the fold tells apart, and one of the others.
OtherKinds == {"QueryGameMismatch"}

ErrorKinds == {"Failure", "QuerySchemaMismatch"} \cup OtherKinds

\* What the closure of the fan-out yields for a sheet: the rows that match
\* in its index, or the error of normalize or of Executor::search.
Outcomes ==
    {[kind |-> "Ok", stage |-> "execute", scores |-> sc] : sc \in ScoreSeqs}
    \cup {[kind |-> k, stage |-> st, scores |-> <<>>] : k \in ErrorKinds, st \in {"normalize", "execute"}}

\* sheet_filter: None, or Some(HashSet) of sheet names.
NoFilter == [some |-> FALSE, names |-> {}]

Filters == {NoFilter} \cup {[some |-> TRUE, names |-> ns] : ns \in SUBSET Sheets}

\* The orders a set's iterator may yield its elements in.
Orders(ns) == {o \in [1..Cardinality(ns) -> ns] : \A i, j \in 1..Cardinality(ns) : o[i] = o[j] => i = j}

\* sheet_names: the filter's iterator, or the full list of sheets.
SheetNames(filter) == IF filter.some THEN Orders(filter.names) ELSE {ExcelList}

Min(a, b) == IF a < b THEN a ELSE b

\* limit.unwrap_or(limit_default).min(limit_max)
EffectiveLimit(lim, cfg) == Min(IF lim = NoLimit THEN cfg.limit_default ELSE lim, cfg.limit_max)

\* limit + 1 overflows the limit's type.
Overflows(l) == l + 1 > U32Max

\* The limit itself, where limit + 1 is meant.
LimitItself(l) == l

\* limit + 1 in the limit's type, where the build does not check it.
Wrapped(l) == (l + 1) % (U32Max + 1)

\* The accumulator of try_fold: Warnings<Vec<_>>.
NoResults == [value |-> <<>>, warnings |-> <<>>]

NoError == [kind |-> "none", sheet |-> "none"]

\* provider.search with Some(limit): the first rows of the sheet's matches,
\* as many as the limit allows.
IndexSearch(matches, cap) == SubSeq(matches, 1, Min(cap, Len(matches)))

\* The SearchResults of one sheet, tagged with its name.
Tagged(name, scores) == [i \in 1..Len(scores) |-> [score |-> scores[i], sheet |-> name, row_id |-> i]]

\* error.to_string(): the text of a warning, as the parts it is made of.
Warning(name, o) == <<o.kind>>

\* A closure that raises a Failure as a warning, as it does other errors.
FoldStepFailureWarns(acc, name, o) ==
    IF o.kind = "Ok" THEN [error |-> NoError, acc |-> [acc EXCEPT !.value = Append(@, Tagged(name, o.scores))]]
    ELSE IF o.kind = "QuerySchemaMismatch" THEN [error |-> NoError, acc |-> acc]
    ELSE [error |-> NoError, acc |-> [acc EXCEPT !.warnings = Append(@, Warning(name, o))]]

\* A closure that raises a QuerySchemaMismatch as a warning.
FoldStepMismatchWarns(acc, name, o) ==
    IF o.kind = "Ok" THEN [error |-> NoError, acc |-> [acc EXCEPT !.value = Append(@, Tagged(name, o.scores))]]
    ELSE IF o.kind = "Failure" THEN [error |-> [kind |-> o.kind, sheet |-> name], acc |-> NoResults]
    ELSE [error |-> NoError, acc |-> [acc EXCEPT !.warnings = Append(@, Warning(name, o))]]

\* The closure of try_fold, for the outcome o of the sheet called name.
FoldStep(acc, name, o) ==
    IF o.kind = "Ok" THEN [error |-> NoError, acc |-> [acc EXCEPT !.value = Append(@, Tagged(name, o.scores))]]
    ELSE IF o.kind = "Failure" THEN [error |-> [kind |-> o.kind, sheet |-> name], acc |-> NoResults]
    ELSE IF o.kind = "QuerySchemaMismatch" THEN [error |-> NoError, acc |-> acc]
    ELSE [error |-> NoError, acc |-> [acc EXCEPT !.warnings = Append(@, Warning(name, o))]]

\* vec.into_iter().flatten().collect()
RECURSIVE Flatten(_)
Flatten(vec) == IF vec = <<>> THEN <<>> ELSE Head(vec) \o Flatten(Tail(vec))

\* b.score.partial_cmp(&a.score): Less puts a before b.
Compare(a, b) == IF b.score < a.score THEN "Less" ELSE IF a.score < b.score THEN "Greater" ELSE "Equal"

\* results.sort_by(..): a stable sort.
RECURSIVE InsertSorted(_, _)
InsertSorted(sorted, r) ==
    IF sorted = <<>> THEN <<r>>
    ELSE IF Compare(sorted[Len(sorted)], r) = "Greater"
         THEN Append(InsertSorted(SubSeq(sorted, 1, Len(sorted) - 1), r), sorted[Len(sorted)])
         ELSE Append(sorted, r)

RECURSIVE SortBy(_)
SortBy(rs) == IF rs = <<>> THEN <<>> ELSE InsertSorted(SortBy(SubSeq(rs, 1, Len(rs) - 1)), rs[Len(rs)])

\* A cut at the limit handed to the indices.
TruncateToResultLimit(rs, n) == SubSeq(rs, 1, Min(n + 1, Len(rs)))

\* results.truncate(limit_usize)
Truncate(rs, n) == SubSeq(rs, 1, Min(n, Len(rs)))

\* The cursor offsets: the count of the results of every sheet.
Offsets(results) == [s \in Sheets |-> Cardinality({i \in 1..Len(results) : results[i].sheet = s})]

\* What the call returned: nothing yet, Ok(Warnings<Vec<SearchResult>>),
\* Err(error), or a panic; with it more_results, and the offsets the call
\* calculates and logs when more_results is set.
Return(kind, error, results, warnings, more) ==
    [kind |-> kind, error |-> error, results |-> results, warnings |-> warnings, more_results |-> more,
     offsets |-> IF more THEN Offsets(results) ELSE Offsets(<<>>)]

NoReturn == Return("none", NoError, <<>>, <<>>, FALSE)

\* No call of Search::search is in progress.
NoSearch ==
    /\ pagination_config = [limit_default |-> 0, limit_max |-> 0]
    /\ request = [limit |-> NoLimit, sheet_filter |-> NoFilter]
    /\ outcomes = [s \in Sheets |-> [kind |-> "Ok", stage |-> "execute", scores |-> <<>>]]
    /\ q_pc = "none"
    /\ limit = 0
    /\ result_limit = 0
    /\ sheet_names = <<>>
    /\ index_results = NoResults
    /\ asked = <<>>
    /\ ret = NoReturn

(***************************************************************************)
(* Search::start (search.rs 63-78): the receiver of the watch channel.     *)
(***************************************************************************)
\* The version of the channel's value: send_if_modified increments it each
\* time its closure returns true, which is each time a value is sent.
ChannelVersion(values) == Len(values)

\* receiver.changed() is ready: the value's version is not the one the
\* receiver has seen.
HasChangedTwice(seen, version) == version > seen + 1

HasChangedAlways(seen, version) == TRUE

HasChanged(seen, version) == version # seen

\* Search::start is not running.
NoStart ==
    /\ start_pc = "none"
    /\ receiver = 0
    /\ cancel = FALSE
    /\ ingested = <<>>

(***************************************************************************)
(* Version::ingest of the search version (search/version.rs 41-88): sheet  *)
(* names, index paths and the indices map.                                 *)
(***************************************************************************)
\* A sheet name is a string, modelled as the sequence of its characters.
DIR == <<"!", "D", "I", "R", "!">>

\* The pieces the sheet names of the model are made of, and how many of
\* them a name has at most.
NameParts == {<<"/">>, DIR, <<"A">>}

MaxParts == 2

MaxSheets == 2

RECURSIVE Concat(_)
Concat(parts) == IF parts = <<>> THEN <<>> ELSE Head(parts) \o Concat(Tail(parts))

SheetNameSet == {Concat(parts) : parts \in UNION {[1..n -> NameParts] : n \in 1..MaxParts}}

ExcelLists == {l \in SUBSET SheetNameSet : Cardinality(l) \in 1..MaxSheets}

\* str::replace(from, to) with a one-character pattern: every occurrence
\* of the character gives way to the text.
RECURSIVE Replace(_, _, _)
Replace(name, from, to) ==
    IF name = <<>> THEN <<>>
    ELSE (IF Head(name) = from THEN to ELSE <<Head(name)>>) \o Replace(Tail(name), from, to)

\* this.path.join(sheet_name.replace('/', "!DIR!")): the directory of the
\* sheet's index, as the component below the version's path.
IndexPath(sheet_name) == Replace(sheet_name, "/", DIR)

\* What a sheet's future resolves to: Ok((sheet_name, index)), or the Err
\* of excel.sheet or of Index::ingest.
FutureResults == {"Ok", "Err"}

\* result.expect(..) panics on an Err.
PanicsNever(result) == FALSE

Panics(result) == result = "Err"

\* indices: None, or Some(map).
NoIndices == [some |-> FALSE, map |-> {}]

SomeIndices(map) == [some |-> TRUE, map |-> map]

\* The entry indices.insert(sheet_name, index) leaves in the map.
Entry(sheet_name) == [sheet |-> sheet_name, path |-> IndexPath(sheet_name)]

InsertIndex(map, sheet_name) == {e \in map : e.sheet # sheet_name} \cup {Entry(sheet_name)}

\* `while let Some(result) = futures.next().await` ends: no future is left.
ExhaustedAlways(fs) == TRUE

Exhausted(fs) == fs = {}

\* indices.clone() of Version::search: the Arc of the map it read.
SnapshotOne(cell) == {CHOOSE e \in cell.map : TRUE}

Snapshot(cell) == cell.map

\* The sheets a map has an Index for.
SheetsOf(map) == {e.sheet : e \in map}

\* Executor::search calls of one Version::search.
MaxLookups == 2

\* Version::ingest is not running.
NoIngest ==
    /\ v_pc = "none"
    /\ list = {}
    /\ sheet_results = <<>>
    /\ futures = {}
    /\ v_indices = {}
    /\ indices = NoIndices
    /\ x_pc = "none"
    /\ observed = NoIndices
    /\ executor = {}
    /\ lookups = <<>>

(***************************************************************************)
(* ColumnFilter (http/column_filter.rs): the values, merge, and the nom    *)
(* parser behind Deserialize.                                              *)
(***************************************************************************)
\* Option::None of an Option<ColumnFilter>, the "All" value.
None == [kind |-> "None"]

\* ColumnFilter::Struct(map) and ColumnFilter::Array(child).
Struct(fields) == [kind |-> "Struct", fields |-> fields]

Array(child) == [kind |-> "Array", child |-> child]

\* todo!(..) in merge: a panic, which unwinds through every caller.
Panic == [kind |-> "Panic"]

\* The field names of the filters merged, and how deep the filters nest.
FieldNames == {<<"a">>, <<"b">>}

MaxDepth == 2

RECURSIVE ColumnFiltersOfDepth(_)
ColumnFiltersOfDepth(d) ==
    IF d = 0 THEN {}
    ELSE LET children == {None} \cup ColumnFiltersOfDepth(d - 1)
         IN  {Struct(f) : f \in UNION {[ks -> children] : ks \in (SUBSET FieldNames) \ {{}}}}
             \cup {Array(c) : c \in children}

ColumnFilters == ColumnFiltersOfDepth(MaxDepth)

\* A panic below a value is a panic of the whole.
StructOf(fields) == IF \E k \in DOMAIN fields : fields[k] = Panic THEN Panic ELSE Struct(fields)

ArrayOf(child) == IF child = Panic THEN Panic ELSE Array(child)

RECURSIVE Merge(_, _)
MergeOptionKeep(target_value, source_value) == target_value

\* The match on (target_value, source_value) of merge_struct, which is the
\* match of merge_array too.
MergeOption(target_value, source_value) ==
    IF target_value # None /\ source_value # None
    THEN Merge(target_value, source_value)
    ELSE None

\* merge_struct: every key of source is removed from target, merged with
\* what was there, and inserted.
MergeStruct(target_struct, source_struct) ==
    [key \in DOMAIN target_struct \cup DOMAIN source_struct |->
        IF key \notin DOMAIN source_struct THEN target_struct[key]
        ELSE IF key \notin DOMAIN target_struct THEN source_struct[key]
        ELSE MergeOption(target_struct[key], source_struct[key])]

MergeArray(target_array, source_array) == MergeOption(target_array, source_array)

\* ColumnFilter::merge.
Merge(self, other) ==
    IF self = Panic \/ other = Panic THEN Panic
    ELSE IF self.kind = "Struct" /\ other.kind = "Struct"
    THEN StructOf(MergeStruct(self.fields, other.fields))
    ELSE IF self.kind = "Array" /\ other.kind = "Array"
    THEN ArrayOf(MergeArray(self.child, other.child))
    ELSE Panic

\* filters.into_iter().reduce(|a, b| a.merge(b)) on a list that is not
\* empty.
RECURSIVE Reduce(_)
Reduce(filters) ==
    IF Len(filters) = 1 THEN filters[1]
    ELSE Merge(Reduce(SubSeq(filters, 1, Len(filters) - 1)), filters[Len(filters)])

\* The characters of a string: letters (is_ascii_alphanumeric), and the
\* punctuation of the syntax, "[]" taken as one.
Letters == {"a", "b"}

Tokens == Letters \cup {".", ",", "[]", "(", ")"}

MaxTokens == 7

Strings == UNION {[1..n -> Tokens] : n \in 0..MaxTokens}

\* An IResult: Ok((rest, value)), Err(Error), or the panic of a merge.
ParseOk(rest, value) == [kind |-> "Ok", rest |-> rest, value |-> value]

ParseError == [kind |-> "Error", rest |-> <<>>, value |-> None]

ParsePanic == [kind |-> "Panic", rest |-> <<>>, value |-> Panic]

\* tag(t): the input starts with t.
Tag(t, input) == input # <<>> /\ Head(input) = t

\* take_while1: the length of the longest prefix of letters.
RECURSIVE TakeWhile(_)
TakeWhile(input) ==
    IF input # <<>> /\ Head(input) \in Letters THEN 1 + TakeWhile(Tail(input)) ELSE 0

Drop(input, n) == SubSeq(input, n + 1, Len(input))

RECURSIVE Group(_)
RECURSIVE FilterParser(_)
RECURSIVE SeparatedList(_, _)

\* chained_filter: opt(preceded(tag("."), filter)).
ChainedFilter(input) ==
    IF Tag(".", input)
    THEN LET child == FilterParser(Tail(input))
         IN  IF child.kind = "Error" THEN ParseOk(input, None) ELSE child
    ELSE ParseOk(input, None)

\* struct_entry: tuple((field_name, chained_filter)).
StructEntry(input) ==
    LET n == TakeWhile(input)
        child == ChainedFilter(Drop(input, n))
    IN  IF n = 0 THEN ParseError
        ELSE IF child.kind = "Panic" THEN ParsePanic
        ELSE ParseOk(child.rest, Struct([key \in {SubSeq(input, 1, n)} |-> child.value]))

\* array_index: tuple((tag("[]"), chained_filter)).
ArrayIndex(input) ==
    IF ~Tag("[]", input) THEN ParseError
    ELSE LET child == ChainedFilter(Tail(input))
         IN  IF child.kind = "Panic" THEN ParsePanic
             ELSE ParseOk(child.rest, Array(child.value))

\* delimited(tag("("), group, tag(")")).
Delimited(input) ==
    IF ~Tag("(", input) THEN ParseError
    ELSE LET inner == Group(Tail(input))
         IN  IF inner.kind # "Ok" THEN inner
             ELSE IF Tag(")", inner.rest) THEN ParseOk(Tail(inner.rest), inner.value)
             ELSE ParseError

\* filter: alt((struct_entry, array_index, delimited(..))).
FilterParser(input) ==
    LET s == StructEntry(input)
        a == ArrayIndex(input)
    IN  IF s.kind # "Error" THEN s
        ELSE IF a.kind # "Error" THEN a
        ELSE Delimited(input)

\* The loop of separated_list1(tag(","), filter) after its first element:
\* a separator and an element more, or the list so far with the input
\* before the separator.
SeparatedList(res, input) ==
    IF ~Tag(",", input) THEN ParseOk(input, res)
    ELSE LET next == FilterParser(Tail(input))
         IN  IF next.kind = "Panic" THEN ParsePanic
             ELSE IF next.kind = "Error" THEN ParseOk(input, res)
             ELSE SeparatedList(Append(res, next.value), next.rest)

\* group: map(separated_list1(tag(","), filter), reduce merge).
Group(input) ==
    LET first == FilterParser(input)
        filters == SeparatedList(<<first.value>>, first.rest)
    IN  IF first.kind # "Ok" THEN first
        ELSE IF filters.kind = "Panic" \/ Reduce(filters.value) = Panic THEN ParsePanic
        ELSE ParseOk(filters.rest, Reduce(filters.value))

\* Deserialize for ColumnFilter: Ok(filter), Err(..) on a parse error or on
\* remaining characters, or the panic.
Deserialized(kind, value) == [kind |-> kind, value |-> value]

Deserialize(input) ==
    LET parsed == Group(input)
    IN  IF parsed.kind = "Panic" THEN Deserialized("Panic", Panic)
        ELSE IF parsed.kind = "Error" \/ parsed.rest # <<>> THEN Deserialized("Err", None)
        ELSE Deserialized("Ok", parsed.value)

NoOutput == Deserialized("none", None)

\* No call on ColumnFilters is in progress.
NoFilterCall ==
    /\ f_pc = "none"
    /\ raw = <<>>
    /\ target = None
    /\ source = None
    /\ f_out = NoOutput

(***************************************************************************)
(* The versions and names RwLocks of the manager: what every operation     *)
(* acquires and releases, and where it suspends (manager.rs).              *)
(***************************************************************************)
Guards == {"versions.read", "versions.write", "names.read", "names.write"}

\* One operation of a program, with the line of the source it stands for:
\* a guard acquired or dropped, an await, or a step that touches no lock.
Op(op, guard, line) == [op |-> op, guard |-> guard, line |-> line]

\* broadcast (369-388): the read guard is a temporary of the `let keys`.
BroadcastOps ==
    <<Op("acquire", "versions.read", 372), Op("release", "versions.read", 376), Op("send", "none", 379)>>

PersistMetadataNamesFirstOps ==
    <<Op("acquire", "names.read", 342), Op("acquire", "versions.read", 334),
      Op("release", "versions.read", 347), Op("release", "names.read", 347),
      Op("spawn", "none", 350), Op("await", "none", 356)>>

\* persist_metadata (330-357): both read guards are temporaries of the one
\* `let persisted_versions`, dropped at its end; then the blocking task
\* and the await of its handle.
PersistMetadataOps ==
    <<Op("acquire", "versions.read", 334), Op("acquire", "names.read", 342),
      Op("release", "names.read", 347), Op("release", "versions.read", 347),
      Op("spawn", "none", 350), Op("await", "none", 356)>>

\* hydrate (247-294) that finds no catalog: it returns at 248.
HydrateNothingOps == <<Op("await", "none", 248)>>

\* hydrate that finds a catalog: the guards taken at 277 and 278 live to
\* the end of the function, over the call of broadcast.
HydrateOps ==
    <<Op("await", "none", 248), Op("await", "none", 256),
      Op("acquire", "versions.write", 260), Op("release", "versions.write", 275),
      Op("acquire", "versions.read", 277), Op("acquire", "names.write", 278)>>
    \o BroadcastOps
    \o <<Op("release", "names.write", 294), Op("release", "versions.read", 294)>>

\* An update pass (159-219) whose fetch fails, one that finds no change,
\* and one that finds a change.
UpdateFetchFailOps == <<Op("await", "none", 150), Op("await", "none", 167)>>

UpdateNoChangeOps ==
    UpdateFetchFailOps \o <<Op("acquire", "versions.write", 173), Op("release", "versions.write", 192)>>

UpdateOps ==
    UpdateNoChangeOps
    \o <<Op("acquire", "names.write", 204), Op("release", "names.write", 206), Op("spawn", "none", 361)>>
    \o PersistMetadataOps
    \o <<Op("await", "none", 213)>>
    \o BroadcastOps

\* set_names (114-127): the write guard lives in the block of 120-124.
SetNamesOps ==
    <<Op("acquire", "names.write", 121), Op("release", "names.write", 124)>> \o PersistMetadataOps

\* keys (75-82), version (130-132), resolve (86-92), and names (95-110)
\* of an unknown and of a known key.
KeysOps == <<Op("acquire", "versions.read", 77), Op("release", "versions.read", 81)>>

VersionOps == <<Op("acquire", "versions.read", 131), Op("release", "versions.read", 131)>>

ResolveOps == <<Op("acquire", "names.read", 88), Op("release", "names.read", 91)>>

NamesUnknownOps == <<Op("acquire", "versions.read", 97), Op("release", "versions.read", 97)>>

NamesOps == NamesUnknownOps \o <<Op("acquire", "names.read", 103), Op("release", "names.read", 107)>>

\* The tasks: start_inner, two callers of set_names, and a reader.
Tasks == {"start", "set_names", "set_names_2", "reader"}

\* Update passes of start_inner.
LockPasses == 1

RECURSIVE UpdatePasses(_)
UpdatePasses(n) ==
    IF n = 0 THEN {<<>>}
    ELSE {p \o u : p \in UpdatePasses(n - 1), u \in {UpdateFetchFailOps, UpdateNoChangeOps, UpdateOps}}

Programs(t) ==
    IF t = "start" THEN {h \o u : h \in {HydrateNothingOps, HydrateOps}, u \in UpdatePasses(LockPasses)}
    ELSE IF t = "reader" THEN {KeysOps, VersionOps, ResolveOps, NamesUnknownOps, NamesOps}
    ELSE {<<>>, SetNamesOps}

NoGuards == [g \in Guards |-> 0]

\* The guard is dropped.
ReleaseNothing(h, g) == h

Release(h, g) == [h EXCEPT ![g] = @ - 1]

Acquire(h, g) == [h EXCEPT ![g] = @ + 1]

\* The lock of a guard, and its write guard.
LockOf(g) == IF g \in {"versions.read", "versions.write"} THEN "versions" ELSE "names"

WriteOf(lock) == IF lock = "versions" THEN "versions.write" ELSE "names.write"

ReadOf(lock) == IF lock = "versions" THEN "versions.read" ELSE "names.read"

\* The manager's locks are not in use.
NoLocks ==
    /\ program = [t \in Tasks |-> <<>>]
    /\ l_pc = [t \in Tasks |-> 1]
    /\ held = [t \in Tasks |-> NoGuards]

(***************************************************************************)
(* Init: a manager just constructed (Manager::new) over a directory that   *)
(* an earlier run may have left in any state.                              *)
(***************************************************************************)
ManagerNew ==
    /\ versions = NoVersions
    /\ names = NoNames
    /\ channel = {}
    /\ sent = <<>>
    /\ vfile \in [Keys -> StartFiles]
    /\ meta \in {NoMetadata, BadMetadata} \cup Catalogs
    /\ pc = "hydrate"
    /\ h_names = NoNames
    /\ h_ok = NoVersions
    /\ u_key = NoKey
    /\ u_version = NoVersion
    /\ u_vacant = FALSE
    /\ u_vtask = "none"
    /\ u_mtask = "none"
    /\ u_snap = NoMetadata
    /\ detached = {}
    /\ s_pc = "idle"
    /\ s_keys = {}
    /\ s_snap = NoMetadata
    /\ passes = 0
    /\ calls = 0

Init == ManagerNew /\ NoSearch /\ NoStart /\ NoIngest /\ NoFilterCall /\ NoLocks

(***************************************************************************)
(* broadcast (manager.rs 369-388).                                         *)
(***************************************************************************)
Broadcast ==
    LET keys == BroadcastKeys(versions)
    IN  IF Modified(channel, keys)
        THEN channel' = keys /\ sent' = Append(sent, keys)
        ELSE UNCHANGED <<channel, sent>>

(***************************************************************************)
(* hydrate (manager.rs 247-294).                                           *)
(***************************************************************************)
\* hydrate_metadata, then join_all(hydrate_version) over the catalog's keys.
\* No catalog ends hydration, one that does not parse ends start_inner with
\* the error. Nothing writes a version file while hydrate reads them.
HydrateRead ==
    /\ pc = "hydrate"
    /\ \/ meta.state = "absent" /\ pc' = "tick" /\ UNCHANGED hvars
       \/ meta.state = "partial" /\ pc' = "failed" /\ UNCHANGED hvars
       \/ /\ meta.state = "ok"
          /\ pc' = "h_insert"
          /\ h_names' = meta.names
          /\ h_ok' = [k \in Keys |-> IF k \in meta.versions THEN HydrateVersionResult(vfile[k]) ELSE NoVersion]
    /\ UNCHANGED <<mvars, dvars, uvars, svars, bvars, others_manager>>

\* The versions write guard: insert every hydrated version.
HydrateInsert ==
    /\ pc = "h_insert"
    /\ versions' = HydrateVersionMap(versions, h_ok)
    /\ h_ok' = NoVersions
    /\ pc' = "h_names"
    /\ UNCHANGED <<names, channel, sent, dvars, h_names, uvars, svars, bvars, others_manager>>

\* The names write guard: install the known names, then broadcast.
HydrateNames ==
    /\ pc = "h_names"
    /\ names' = HydrateNameMap(names, versions, h_names)
    /\ Broadcast
    /\ pc' = "tick"
    /\ h_names' = NoNames
    /\ UNCHANGED <<versions, dvars, h_ok, uvars, svars, bvars, others_manager>>

(***************************************************************************)
(* update (manager.rs 159-219), one pass per tick of start_inner's loop.   *)
(***************************************************************************)
\* fetch_repository fails: the pass returns the error, nothing has changed.
UpdateFetchFail ==
    /\ pc = "tick"
    /\ UNCHANGED vars

\* fetch_repository succeeds: the pass has built Version `version`, whose
\* key is `key`.
UpdateFetch(key, version) ==
    /\ pc = "tick"
    /\ Changed(versions, key, version) => passes < MaxPasses
    /\ u_key' = key
    /\ u_version' = version
    /\ pc' = "compare"
    /\ UNCHANGED <<mvars, dvars, hvars, u_vacant, u_vtask, u_mtask, u_snap, svars, bvars, others_manager>>

\* The pass compares the Version with the entry of the versions map, under
\* the versions write guard: it stores a Version that differs, and returns
\* Ok when nothing has changed.
UpdateCompare ==
    /\ pc = "compare"
    /\ IF Changed(versions, u_key, u_version)
       THEN /\ passes' = passes + 1
            /\ versions' = InsertVersion(versions, u_key, u_version)
            /\ u_vacant' = Vacant(versions, u_key)
            /\ pc' = "tag"
            /\ UNCHANGED u_key
       ELSE /\ u_key' = NoKey
            /\ pc' = "tick"
            /\ UNCHANGED <<versions, u_vacant, passes>>
    /\ u_version' = NoVersion
    /\ UNCHANGED <<names, channel, sent, dvars, hvars, u_vtask, u_mtask, u_snap, svars, calls, others_manager>>

\* Update latest tag.
UpdateTagLatest ==
    /\ pc = "tag"
    /\ names' = TagLatest(names, u_key)
    /\ pc' = "persist"
    /\ UNCHANGED <<versions, channel, sent, dvars, hvars, uvars, svars, bvars, others_manager>>

\* First poll of try_join!: persist_version spawns its blocking task,
\* persist_metadata collects the catalog and spawns its own.
UpdatePersist ==
    /\ pc = "persist"
    /\ Cardinality(detached) < MaxDetached
    /\ u_vtask' = "pending"
    /\ u_mtask' = "pending"
    /\ u_snap' = PersistedMetadata(KeysOf(versions), names)
    /\ pc' = "join"
    /\ UNCHANGED <<mvars, dvars, hvars, u_key, u_version, u_vacant, svars, bvars, others_manager>>

\* The blocking task of persist_version runs.
UpdateVersionTask ==
    /\ u_vtask = "pending"
    /\ \/ vfile' = [vfile EXCEPT ![u_key] = versions[u_key]] /\ u_vtask' = "ok"
       \/ \E f \in WriteFailure(vfile[u_key]) : vfile' = [vfile EXCEPT ![u_key] = f] /\ u_vtask' = "err"
    /\ UNCHANGED <<mvars, meta, detached, pc, hvars, u_key, u_version, u_vacant, u_mtask, u_snap, svars, bvars, others_manager>>

\* The blocking task of persist_metadata runs.
UpdateMetadataTask ==
    /\ u_mtask = "pending"
    /\ \/ meta' = u_snap /\ u_mtask' = "ok"
       \/ meta' \in MetadataWriteFailure(meta) /\ u_mtask' = "err"
    /\ u_snap' = NoMetadata
    /\ UNCHANGED <<mvars, vfile, detached, pc, hvars, u_key, u_version, u_vacant, u_vtask, svars, bvars, others_manager>>

\* A blocking task goes on after try_join! dropped its JoinHandle.
Detach(v, m, key, version, snap) == (IF v = "pending" THEN {[file |-> "version", key |-> key, version |-> version, snap |-> NoMetadata]} ELSE {}) \cup (IF m = "pending" THEN {[file |-> "metadata", key |-> NoKey, version |-> NoVersion, snap |-> snap]} ELSE {})

\* try_join! returns. The first error ends the pass with that error; after
\* two successes update calls broadcast and returns Ok.
UpdateJoin ==
    /\ pc = "join"
    /\ TryJoin(u_vtask, u_mtask) # "pending"
    /\ IF TryJoin(u_vtask, u_mtask) = "err"
       THEN /\ detached' = detached \cup Detach(u_vtask, u_mtask, u_key, versions[u_key], u_snap)
            /\ UNCHANGED <<channel, sent>>
       ELSE /\ Broadcast
            /\ UNCHANGED detached
    /\ pc' = "tick"
    /\ u_key' = NoKey
    /\ u_vacant' = FALSE
    /\ UNCHANGED u_version
    /\ u_vtask' = "none"
    /\ u_mtask' = "none"
    /\ u_snap' = NoMetadata
    /\ UNCHANGED <<versions, names, vfile, meta, hvars, svars, bvars, others_manager>>

\* A detached blocking task runs.
DetachedTask ==
    \E t \in detached :
        /\ detached' = detached \ {t}
        /\ IF t.file = "version"
           THEN /\ vfile' \in {[vfile EXCEPT ![t.key] = f] : f \in {t.version} \cup WriteFailure(vfile[t.key])}
                /\ UNCHANGED meta
           ELSE /\ meta' \in {t.snap} \cup MetadataWriteFailure(meta)
                /\ UNCHANGED vfile
        /\ UNCHANGED <<mvars, pc, hvars, uvars, svars, bvars, others_manager>>

(***************************************************************************)
(* set_names (manager.rs 114-127) and its persist_metadata (330-357).      *)
(***************************************************************************)
\* The names write guard: drop the key's names, add the new ones. Then
\* persist_metadata collects the keys under the versions read guard.
SetNamesWrite(key, new_names) ==
    /\ s_pc = "idle"
    /\ calls < MaxCalls
    /\ calls' = calls + 1
    /\ names' = RetainExtend(names, key, new_names)
    /\ s_keys' = KeysOf(versions)
    /\ s_pc' = "snap_names"
    /\ UNCHANGED <<versions, channel, sent, dvars, pc, hvars, uvars, s_snap, passes, others_manager>>

\* persist_metadata: clone the names under the names read guard and spawn
\* the blocking task.
SetNamesSpawn ==
    /\ s_pc = "snap_names"
    /\ s_snap' = PersistedMetadata(s_keys, names)
    /\ s_keys' = {}
    /\ s_pc' = "await"
    /\ UNCHANGED <<mvars, dvars, pc, hvars, uvars, bvars, others_manager>>

\* The blocking task of persist_metadata runs; join_handle.await? returns
\* its result and set_names returns it.
SetNamesTask ==
    /\ s_pc = "await"
    /\ meta' \in {s_snap} \cup MetadataWriteFailure(meta)
    /\ s_snap' = NoMetadata
    /\ s_pc' = "idle"
    /\ UNCHANGED <<mvars, vfile, detached, pc, hvars, uvars, s_keys, bvars, others_manager>>

(***************************************************************************)
(* The version manager.                                                    *)
(***************************************************************************)
Next ==
    \/ HydrateRead
    \/ HydrateInsert
    \/ HydrateNames
    \/ UpdateFetchFail
    \/ \E key \in Keys, version \in Paths : UpdateFetch(key, version)
    \/ UpdateCompare
    \/ UpdateTagLatest
    \/ UpdatePersist
    \/ UpdateVersionTask
    \/ UpdateMetadataTask
    \/ UpdateJoin
    \/ DetachedTask
    \/ \E key \in Keys, new_names \in SUBSET Names : SetNamesWrite(key, new_names)
    \/ SetNamesSpawn
    \/ SetNamesTask

Spec == Init /\ [][Next]_vars

(***************************************************************************)
(* Search::search (search.rs 106-206), one call. The configuration, the    *)
(* arguments and what every sheet yields are the inputs.                   *)
(***************************************************************************)
InitSearch ==
    /\ ManagerNew
    /\ NoStart
    /\ NoIngest
    /\ NoFilterCall
    /\ NoLocks
    /\ vfile = [k \in Keys |-> NoFile]
    /\ meta = NoMetadata
    /\ pagination_config \in [limit_default : U32, limit_max : U32]
    /\ request \in [limit : U32 \cup {NoLimit}, sheet_filter : Filters]
    /\ outcomes \in [Sheets -> Outcomes]
    /\ q_pc = "start"
    /\ limit = 0
    /\ result_limit = 0
    /\ sheet_names = <<>>
    /\ index_results = NoResults
    /\ asked = <<>>
    /\ ret = NoReturn

\* self.data.version(version) or excel.list() fails: `?` returns the error.
SearchNotReady ==
    /\ q_pc = "start"
    /\ ret' = Return("Err", [kind |-> "Failure", sheet |-> "none"], <<>>, <<>>, FALSE)
    /\ q_pc' = "done"
    /\ UNCHANGED <<others_q, pagination_config, request, outcomes, limit, result_limit, sheet_names, index_results, asked>>

\* limit, result_limit = limit + 1 (a panic on overflow where the build
\* checks it, the wrapped value where it does not), and the sheet iterator.
SearchStart ==
    /\ q_pc = "start"
    /\ LET l == EffectiveLimit(request.limit, pagination_config) IN
        \/ /\ limit' = l
           /\ result_limit' = Wrapped(l)
           /\ sheet_names' \in SheetNames(request.sheet_filter)
           /\ q_pc' = "fold"
           /\ UNCHANGED ret
        \/ /\ Overflows(l)
           /\ ret' = Return("panic", NoError, <<>>, <<>>, FALSE)
           /\ q_pc' = "done"
           /\ UNCHANGED <<limit, result_limit, sheet_names>>
    /\ UNCHANGED <<others_q, pagination_config, request, outcomes, index_results, asked>>

\* One item of the fan-out: normalize, Executor::search, and the closure
\* of try_fold on what they yield. A Failure returns from search.
SearchSheet ==
    /\ q_pc = "fold"
    /\ sheet_names # <<>>
    /\ LET name == Head(sheet_names)
           o == outcomes[name]
           found == [o EXCEPT !.scores = IndexSearch(@, result_limit)]
           step == FoldStep(index_results, name, found)
       IN  /\ asked' = IF o.stage = "execute" THEN Append(asked, [sheet |-> name, limit |-> result_limit]) ELSE asked
           /\ index_results' = step.acc
           /\ IF step.error # NoError
              THEN /\ ret' = Return("Err", step.error, <<>>, <<>>, FALSE)
                   /\ sheet_names' = <<>>
                   /\ q_pc' = "done"
              ELSE /\ sheet_names' = Tail(sheet_names)
                   /\ UNCHANGED <<ret, q_pc>>
    /\ UNCHANGED <<others_q, pagination_config, request, outcomes, limit, result_limit>>

\* The iterator is exhausted: flatten, sort by score, more_results,
\* truncate, and return Ok.
SearchFinish ==
    /\ q_pc = "fold"
    /\ sheet_names = <<>>
    /\ LET results == SortBy(Flatten(index_results.value))
           more_results == Len(results) > limit
       IN  ret' = Return("Ok", NoError, Truncate(results, limit), index_results.warnings, more_results)
    /\ index_results' = NoResults
    /\ q_pc' = "done"
    /\ UNCHANGED <<others_q, pagination_config, request, outcomes, limit, result_limit, sheet_names, asked>>

NextSearch ==
    \/ SearchNotReady
    \/ SearchStart
    \/ SearchSheet
    \/ SearchFinish

SpecSearch == InitSearch /\ [][NextSearch]_vars

(***************************************************************************)
(* The update loop of start_inner (manager.rs 149-155) against a provider  *)
(* whose patch list stays the same: every pass that fetches it builds the  *)
(* same Version. The interval ticks for ever, a pass that started goes on, *)
(* and a blocking task that was spawned runs.                              *)
(***************************************************************************)
\* The Version every fetch builds, and its key.
SamePatchList == [key |-> 1, version |-> "p2"]

UpdateSteps ==
    \/ HydrateRead
    \/ HydrateInsert
    \/ HydrateNames
    \/ UpdateFetch(SamePatchList.key, SamePatchList.version)
    \/ UpdateCompare
    \/ UpdateTagLatest
    \/ UpdatePersist
    \/ UpdateJoin

NextRetry ==
    \/ HydrateRead
    \/ HydrateInsert
    \/ HydrateNames
    \/ UpdateFetchFail
    \/ UpdateFetch(SamePatchList.key, SamePatchList.version)
    \/ UpdateCompare
    \/ UpdateTagLatest
    \/ UpdatePersist
    \/ UpdateVersionTask
    \/ UpdateMetadataTask
    \/ UpdateJoin
    \/ DetachedTask

SpecRetry ==
    /\ Init
    /\ [][NextRetry]_vars
    /\ WF_vars(UpdateSteps)
    /\ WF_vars(UpdateVersionTask)
    /\ WF_vars(UpdateMetadataTask)
    /\ WF_vars(DetachedTask)

(***************************************************************************)
(* Search::start (search.rs 63-78) beside the manager's start_inner: the   *)
(* receiver, the first ingest, and the select! loop over receiver.changed  *)
(* and cancel.cancelled. The runtime goes on polling the task, and the     *)
(* provider's ingest comes to an end.                                      *)
(***************************************************************************)
InitStart ==
    /\ ManagerNew
    /\ NoSearch
    /\ NoIngest
    /\ NoFilterCall
    /\ NoLocks
    /\ start_pc = "subscribe"
    /\ receiver = 0
    /\ cancel = FALSE
    /\ ingested = <<>>

\* self.data.subscribe(): the new receiver has seen the current value.
StartSubscribe ==
    /\ start_pc = "subscribe"
    /\ receiver' = ChannelVersion(sent)
    /\ start_pc' = "borrow"
    /\ UNCHANGED <<others_start, cancel, ingested>>

\* self.ingest(cancel.child_token(), receiver.borrow().clone()) up to its
\* await: the sheets of the borrowed keys go to the provider's ingest.
\* borrow() does not mark the value seen.
StartIngest ==
    /\ start_pc = "borrow"
    /\ ingested' = Append(ingested, channel)
    /\ start_pc' = "ingest"
    /\ UNCHANGED <<others_start, receiver, cancel>>

\* self.data.version(version), excel.list() or excel.sheet(..) fails:
\* `?` returns the error from ingest, and from start.
StartIngestFail ==
    /\ start_pc = "borrow"
    /\ start_pc' = "failed"
    /\ UNCHANGED <<others_start, receiver, cancel, ingested>>

\* The provider's ingest returns Ok; start goes (back) to its select!.
ProviderIngestOk ==
    /\ start_pc = "ingest"
    /\ start_pc' = "select"
    /\ UNCHANGED <<others_start, receiver, cancel, ingested>>

\* The provider's ingest returns an error: `?` returns it from start.
ProviderIngestErr ==
    /\ start_pc = "ingest"
    /\ start_pc' = "failed"
    /\ UNCHANGED <<others_start, receiver, cancel, ingested>>

\* The select! is polled inside the loop only: a `?` that returned from
\* start, or the break, has left it.
InLoopOrFailed(position) == position \in {"select", "failed"}

InLoop(position) == position = "select"

\* select! takes the branch of receiver.changed(), which marks the
\* current value seen.
StartChanged ==
    /\ InLoop(start_pc)
    /\ HasChanged(receiver, ChannelVersion(sent))
    /\ receiver' = ChannelVersion(sent)
    /\ start_pc' = "borrow"
    /\ UNCHANGED <<others_start, cancel, ingested>>

\* select! takes the branch of cancel.cancelled(): break, and Ok(()).
StartCancelled ==
    /\ InLoop(start_pc)
    /\ cancel
    /\ start_pc' = "returned"
    /\ UNCHANGED <<others_start, receiver, cancel, ingested>>

\* Whoever holds the token cancels it.
Cancel ==
    /\ start_pc \notin {"none", "returned", "failed"}
    /\ ~cancel
    /\ cancel' = TRUE
    /\ UNCHANGED <<others_start, start_pc, receiver, ingested>>

NextStart ==
    \/ NextRetry
    \/ StartSubscribe
    \/ StartIngest
    \/ StartIngestFail
    \/ ProviderIngestOk
    \/ ProviderIngestErr
    \/ StartChanged
    \/ StartCancelled
    \/ Cancel

SpecStart ==
    /\ InitStart
    /\ [][NextStart]_vars
    /\ WF_vars(StartSubscribe)
    /\ WF_vars(StartIngest)
    /\ WF_vars(ProviderIngestOk)
    /\ WF_vars(StartChanged)
    /\ WF_vars(StartCancelled)

(***************************************************************************)
(* Version::ingest of the search version (search/version.rs 41-88), one    *)
(* pass. The sheet list, what every sheet's future resolves to, and the    *)
(* indices an earlier pass may have installed are the inputs.              *)
(***************************************************************************)
InitIngest ==
    /\ ManagerNew
    /\ vfile = [k \in Keys |-> NoFile]
    /\ meta = NoMetadata
    /\ NoSearch
    /\ NoStart
    /\ NoFilterCall
    /\ NoLocks
    /\ v_pc = "list"
    /\ list \in ExcelLists
    /\ sheet_results \in [list -> FutureResults]
    /\ futures = {}
    /\ v_indices = {}
    /\ indices \in {NoIndices, SomeIndices({Entry(s) : s \in list})}
    /\ x_pc = "idle"
    /\ observed = NoIndices
    /\ executor = {}
    /\ lookups = <<>>

\* excel.list()? fails: ingest returns the error.
IngestListFail ==
    /\ v_pc = "list"
    /\ v_pc' = "failed"
    /\ UNCHANGED <<others_ingest, xvars, list, sheet_results, futures, v_indices, indices>>

\* One future per sheet name, collected into a FuturesUnordered, and the
\* empty local map.
IngestFutures ==
    /\ v_pc = "list"
    /\ futures' = list
    /\ v_indices' = {}
    /\ v_pc' = "next"
    /\ UNCHANGED <<others_ingest, xvars, list, sheet_results, indices>>

\* futures.next() yields the result of a future, whichever completes
\* first: an Ok is inserted into the local map, an Err panics in expect,
\* which drops the other futures.
IngestNext(sheet_name) ==
    /\ v_pc = "next"
    /\ sheet_name \in futures
    /\ IF Panics(sheet_results[sheet_name])
       THEN /\ v_pc' = "panicked"
            /\ futures' = {}
            /\ UNCHANGED v_indices
       ELSE /\ v_indices' = InsertIndex(v_indices, sheet_name)
            /\ futures' = futures \ {sheet_name}
            /\ UNCHANGED v_pc
    /\ UNCHANGED <<others_ingest, xvars, list, sheet_results, indices>>

\* futures.next() yields None: the local map is installed, and Ok(()).
\* The write lock of the cell is not granted while a search holds its read
\* guard.
IngestInstall ==
    /\ v_pc = "next"
    /\ Exhausted(futures)
    /\ x_pc # "running"
    /\ indices' = SomeIndices(v_indices)
    /\ v_pc' = "done"
    /\ UNCHANGED <<others_ingest, xvars, list, sheet_results, futures, v_indices>>

\* Version::search (93-144) reads the cell: it panics on None, and gives
\* its Executor a clone of the Arc otherwise. The read guard `option`
\* lives to the end of the function.
SearchRead ==
    /\ x_pc = "idle"
    /\ observed' = indices
    /\ IF indices.some
       THEN executor' = Snapshot(indices) /\ x_pc' = "running"
       ELSE executor' = {} /\ x_pc' = "panicked"
    /\ UNCHANGED <<others_ingest, v_pc, list, sheet_results, futures, v_indices, indices, lookups>>

\* Executor::search (182-189) of a sheet, for the outer query or for the
\* target of a relation: self.indices.get(sheet), and a panic in expect
\* when the map has no such sheet.
SearchLookup(sheet) ==
    /\ x_pc = "running"
    /\ Len(lookups) < MaxLookups
    /\ IF sheet \in SheetsOf(executor)
       THEN lookups' = Append(lookups, [sheet |-> sheet, map |-> executor]) /\ UNCHANGED x_pc
       ELSE x_pc' = "panicked" /\ UNCHANGED lookups
    /\ UNCHANGED <<others_ingest, v_pc, list, sheet_results, futures, v_indices, indices, observed, executor>>

\* Version::search returns, which drops the read guard.
SearchReturn ==
    /\ x_pc = "running"
    /\ x_pc' = "done"
    /\ UNCHANGED <<others_ingest, v_pc, list, sheet_results, futures, v_indices, indices, observed, executor, lookups>>

NextIngest ==
    \/ IngestListFail
    \/ IngestFutures
    \/ \E sheet_name \in list : IngestNext(sheet_name)
    \/ IngestInstall
    \/ SearchRead
    \/ \E sheet \in SheetNameSet : SearchLookup(sheet)
    \/ SearchReturn

SpecIngest == InitIngest /\ [][NextIngest]_vars

(***************************************************************************)
(* ColumnFilter (http/column_filter.rs): one call, either of merge on two  *)
(* filters or of Deserialize on a string.                                  *)
(***************************************************************************)
InitFilter ==
    /\ ManagerNew
    /\ vfile = [k \in Keys |-> NoFile]
    /\ meta = NoMetadata
    /\ NoSearch
    /\ NoStart
    /\ NoIngest
    /\ NoLocks
    /\ f_out = NoOutput
    /\ \/ /\ f_pc = "merge"
          /\ target \in ColumnFilters
          /\ source \in ColumnFilters
          /\ raw = <<>>
       \/ /\ f_pc = "deserialize"
          /\ target = None
          /\ source = None
          /\ raw \in Strings

\* target.merge(source).
MergeCall ==
    /\ f_pc = "merge"
    /\ f_out' = LET merged == Merge(target, source)
                IN  Deserialized(IF merged = Panic THEN "Panic" ELSE "Ok", merged)
    /\ f_pc' = "done"
    /\ UNCHANGED <<others_filter, raw, target, source>>

\* ColumnFilter::deserialize of the string.
DeserializeCall ==
    /\ f_pc = "deserialize"
    /\ f_out' = Deserialize(raw)
    /\ f_pc' = "done"
    /\ UNCHANGED <<others_filter, raw, target, source>>

NextFilter ==
    \/ MergeCall
    \/ DeserializeCall

SpecFilter == InitFilter /\ [][NextFilter]_vars

(***************************************************************************)
(* The tasks of the manager on its two RwLocks: every task runs through    *)
(* the lock operations of its program, in any interleaving with the        *)
(* others. A read guard is granted while no write guard is held, a write   *)
(* guard while no guard is held.                                           *)
(***************************************************************************)
InitLocks ==
    /\ ManagerNew
    /\ vfile = [k \in Keys |-> NoFile]
    /\ meta = NoMetadata
    /\ NoSearch
    /\ NoStart
    /\ NoIngest
    /\ NoFilterCall
    /\ program \in {p \in [Tasks -> UNION {Programs(t) : t \in Tasks}] : \A t \in Tasks : p[t] \in Programs(t)}
    /\ l_pc = [t \in Tasks |-> 1]
    /\ held = [t \in Tasks |-> NoGuards]

\* The task has operations left, and the next one.
Running(t) == l_pc[t] <= Len(program[t])

Current(t) == program[t][l_pc[t]]

Holders(g) == {t \in Tasks : held[t][g] > 0}

\* The lock grants the guard: RwLock::read and RwLock::write.
Grants(g) ==
    IF g = ReadOf(LockOf(g))
    THEN Holders(WriteOf(LockOf(g))) = {}
    ELSE Holders(WriteOf(LockOf(g))) = {} /\ Holders(ReadOf(LockOf(g))) = {}

AcquireGuard(t) ==
    /\ Running(t)
    /\ Current(t).op = "acquire"
    /\ Grants(Current(t).guard)
    /\ held' = [held EXCEPT ![t] = Acquire(@, Current(t).guard)]
    /\ l_pc' = [l_pc EXCEPT ![t] = @ + 1]
    /\ UNCHANGED <<others_lock, program>>

ReleaseGuard(t) ==
    /\ Running(t)
    /\ Current(t).op = "release"
    /\ held' = [held EXCEPT ![t] = Release(@, Current(t).guard)]
    /\ l_pc' = [l_pc EXCEPT ![t] = @ + 1]
    /\ UNCHANGED <<others_lock, program>>

\* The future the task awaits is ready: the task goes on.
Resume(t) ==
    /\ Running(t)
    /\ Current(t).op = "await"
    /\ l_pc' = [l_pc EXCEPT ![t] = @ + 1]
    /\ UNCHANGED <<others_lock, program, held>>

\* A step that takes no lock: spawn_blocking, send_if_modified.
LockFree(t) ==
    /\ Running(t)
    /\ Current(t).op \in {"spawn", "send"}
    /\ l_pc' = [l_pc EXCEPT ![t] = @ + 1]
    /\ UNCHANGED <<others_lock, program, held>>

NextLocks ==
    \E t \in Tasks :
        \/ AcquireGuard(t)
        \/ ReleaseGuard(t)
        \/ Resume(t)
        \/ LockFree(t)

SpecLocks == InitLocks /\ [][NextLocks]_vars

(***************************************************************************)
(* Positions of start_inner.                                               *)
(***************************************************************************)
\* hydrate has returned Ok and start_inner is in its update loop.
Hydrated == pc \in {"tick", "compare", "tag", "persist", "join"}

\* This step is the return of an update pass from try_join!.
PassReturns == pc = "join" /\ pc' = "tick"

\* Some write of the pass at try_join! has failed.
WriteFailed == u_vtask = "err" \/ u_mtask = "err"

(***************************************************************************)
(* C1. Every key of a value sent on the watch channel has its              *)
(* version-<key>.json completely written on disk when the value is sent.   *)
(***************************************************************************)
C1_BroadcastPersisted == [][sent' # sent => \A k \in channel' : Persisted(vfile'[k])]_vars

(***************************************************************************)
(* C2. Once hydration has finished, every name of the names map maps to a  *)
(* key that is present in the versions map: no step of an update pass or   *)
(* of a set_names call leaves a state where that holds for one where it    *)
(* does not.                                                               *)
(***************************************************************************)
NamesAreKnown == \A n \in NamesOf(names) : names[n] \in KeysOf(versions)

C2_NamesStayKnown == [][(Hydrated /\ NamesAreKnown) => NamesAreKnown']_vars

(***************************************************************************)
(* C3. The values sent on the watch channel never lose a key: a key of an  *)
(* earlier value is in every later value.                                  *)
(***************************************************************************)
C3_BroadcastsGrow == \A i, j \in 1..Len(sent) : i <= j => sent[i] \subseteq sent[j]

\* Two values were sent, the second with a key more than the first.
C3_Witness == Len(sent) = 2 /\ sent[1] # {} /\ sent[1] # sent[2]

(***************************************************************************)
(* C4. Search::search returns at most L results, where L is the smaller of *)
(* limit_max and the requested limit (limit_default when none is           *)
(* requested), and asks every sheet's index for at most L + 1 results.     *)
(***************************************************************************)
RequestedLimit == IF request.limit = NoLimit THEN pagination_config.limit_default ELSE request.limit

L == IF RequestedLimit < pagination_config.limit_max THEN RequestedLimit ELSE pagination_config.limit_max

C4_AtMostLimit ==
    /\ Len(ret.results) <= L
    /\ \A i \in 1..Len(asked) : asked[i].limit <= L + 1

\* A call returned L results, having cut some off, and asked for L + 1.
C4_Witness ==
    /\ q_pc = "done"
    /\ ret.kind = "Ok"
    /\ L > 0
    /\ Len(ret.results) = L
    /\ ret.more_results
    /\ \E i \in 1..Len(asked) : asked[i].limit = L + 1

(***************************************************************************)
(* C5. A sheet of the fan-out that yields a Failure makes search return    *)
(* that error, with no results and no warnings, whatever the sheets before *)
(* it yielded; a sheet that yields anything else does not make it return,  *)
(* and the end of the fan-out returns Ok.                                  *)
(***************************************************************************)
C5_OnlyFailureReturns ==
    [][(q_pc = "fold") =>
        IF sheet_names # <<>> /\ outcomes[Head(sheet_names)].kind = "Failure"
        THEN /\ q_pc' = "done"
             /\ ret' = Return("Err", [kind |-> "Failure", sheet |-> Head(sheet_names)], <<>>, <<>>, FALSE)
        ELSE IF sheet_names # <<>>
        THEN q_pc' = "fold" /\ ret' = NoReturn
        ELSE q_pc' = "done" /\ ret'.kind = "Ok"]_vars

\* A call returned the Failure of the second sheet it visited, after the
\* first had given it results.
C5_Witness ==
    /\ q_pc = "done"
    /\ ret.kind = "Err"
    /\ ret.error.sheet \in Sheets
    /\ \E i \in 1..Len(asked) :
          /\ asked[i].sheet # ret.error.sheet
          /\ outcomes[asked[i].sheet].kind = "Ok"
          /\ outcomes[asked[i].sheet].scores # <<>>

(***************************************************************************)
(* C6. A sheet of the fan-out that yields a QuerySchemaMismatch leaves the *)
(* results and the warnings accumulated so far as they are, and the call   *)
(* running; what the call returns has no result of such a sheet, and as    *)
(* many warnings as it visited sheets with another error.                  *)
(***************************************************************************)
Mismatched(name) == outcomes[name].kind = "QuerySchemaMismatch"

C6_MismatchSkipped ==
    [][/\ (q_pc = "fold" /\ sheet_names # <<>> /\ Mismatched(Head(sheet_names)))
            => (index_results' = index_results /\ ret' = ret /\ q_pc' = "fold")
       /\ (q_pc = "fold" /\ sheet_names = <<>>)
            => /\ \A i \in 1..Len(ret'.results) : ~Mismatched(ret'.results[i].sheet)
               /\ Len(ret'.warnings) <= Cardinality({s \in Sheets : outcomes[s].kind \in OtherKinds})]_vars

\* A call returned the results of the first sheet, the second one having
\* yielded a QuerySchemaMismatch from its index.
C6_Witness ==
    /\ q_pc = "done"
    /\ ret.kind = "Ok"
    /\ ret.results # <<>>
    /\ Len(asked) = 2
    /\ ~Mismatched(asked[1].sheet)
    /\ Mismatched(asked[2].sheet)

(***************************************************************************)
(* C7. Whenever the versions map is not empty the names map contains the   *)
(* name "latest" (update, which inserts the version and then the name, has *)
(* inserted both): once hydration has finished no step of an update pass   *)
(* or of a set_names call leaves a state where that holds for one where it *)
(* does not.                                                               *)
(***************************************************************************)
LatestNamed == (KeysOf(versions) # {} /\ pc # "tag") => TAG_LATEST \in NamesOf(names)

C7_LatestStaysNamed == [][(Hydrated /\ LatestNamed) => LatestNamed']_vars

(***************************************************************************)
(* C8, as claimed. An update pass that found its key vacant and whose two  *)
(* writes succeeded ends with the key in the versions map, "latest" mapped *)
(* to it, and one value sent: the full key set, the keys known before and  *)
(* the new one. Stated for the passes that end with every name, "latest"   *)
(* among them, mapped to a known key.                                      *)
(***************************************************************************)
C8_PassEndsLatest == [][(PassReturns /\ u_vacant /\ ~WriteFailed /\ NamesAreKnown /\ TAG_LATEST \in NamesOf(names)) => (u_key \in KeysOf(versions') /\ names'[TAG_LATEST] = u_key /\ sent' = Append(sent, KeysOf(versions')))]_vars

(***************************************************************************)
(* C8, amended. The pass maps "latest" to the key when it tags it, after   *)
(* which only a set_names call changes the names map; a pass that found    *)
(* its key vacant and whose two writes succeeded ends with the key in the  *)
(* versions map and one value sent: the full key set, the keys known       *)
(* before and the new one.                                                 *)
(***************************************************************************)
C8_PassInsertsAndSendsAll ==
    [][/\ (pc = "compare" /\ pc' = "tag") => (u_vacant' = Vacant(versions, u_key) /\ KeysOf(versions') = KeysOf(versions) \cup {u_key})
       /\ (pc = "tag" /\ pc' # pc) => names'[TAG_LATEST] = u_key
       /\ (pc \in {"tag", "persist", "join"}) => versions' = versions
       /\ (pc \in {"persist", "join"} /\ names' # names) => (s_pc = "idle" /\ s_pc' # "idle")
       /\ (PassReturns /\ u_vacant /\ ~WriteFailed) => (u_key \in KeysOf(versions') /\ sent' = Append(sent, KeysOf(versions')) /\ channel' = KeysOf(versions'))]_vars

C8_Witness == pc = "tick" /\ passes > 0 /\ Len(sent) = 2 /\ sent[2] = Keys /\ channel = Keys /\ names[TAG_LATEST] \in Keys \ sent[1]

(***************************************************************************)
(* C9. A pass whose Version equals the entry stored under its key returns  *)
(* from the comparison: it sends nothing, writes no file, and leaves the   *)
(* versions and the names as they are; a pass goes on to tag, persist and  *)
(* broadcast only when its Version differs. A value is sent on the watch   *)
(* channel only when it differs from the last one sent.                    *)
(***************************************************************************)
SameVersion == pc = "compare" /\ versions[u_key] = u_version

C9_NoChangeNoEffect ==
    [][/\ (SameVersion /\ pc' # pc) => (pc' = "tick" /\ UNCHANGED <<mvars, dvars, hvars, svars, bvars>>)
       /\ (pc = "compare" /\ pc' = "tag") => ~SameVersion
       /\ (pc = "compare" /\ pc' = pc) => UNCHANGED <<versions, channel, sent, uvars>>
       /\ sent' # sent => (channel' # channel /\ sent' = Append(sent, channel'))]_vars

\* A pass has built the Version that an earlier pass stored, persisted and
\* sent, and is at the comparison.
C9_Witness ==
    /\ SameVersion
    /\ passes > 0
    /\ u_key \in channel
    /\ Persisted(vfile[u_key])
    /\ Len(sent) > 0

(***************************************************************************)
(* C10. A pass one of whose writes failed returns from try_join! (with the *)
(* error) and sends nothing on the watch channel.                          *)
(***************************************************************************)
C10_WriteErrorNoBroadcast == [][(pc = "join" /\ pc' # pc /\ WriteFailed) => (pc' = "tick" /\ UNCHANGED <<channel, sent, versions, names>>)]_vars

\* A pass has returned after a failed write: its key is in the versions
\* map, was not sent, and its file is not written.
C10_Witness == pc = "tick" /\ passes > 0 /\ \E k \in KeysOf(versions) : k \notin channel /\ ~Persisted(vfile[k])

(***************************************************************************)
(* C11. A failed pass does not stop the loop and its work is retried: when *)
(* the ticks that follow see the same patch list and the writes stop       *)
(* failing, the Version built from it is eventually the one written in its *)
(* version file, and its key is eventually in the value of the watch       *)
(* channel.                                                                *)
(***************************************************************************)
Stored(k) == vfile[k] = versions[k] /\ k \in channel

C11_RetryPersists == (<>[]~WriteFailed) => \A k \in Keys : (k \in KeysOf(versions)) ~> Stored(k)

(***************************************************************************)
(* C12. Once a catalog is hydrated, and before an update pass or a         *)
(* set_names call has changed anything, the versions map holds exactly the *)
(* catalog's keys whose version file could be read, each with the Version  *)
(* of its file, and the names map holds exactly the catalog's names whose  *)
(* key is in the versions map.                                             *)
(***************************************************************************)
JustHydrated == pc = "tick" /\ passes = 0 /\ calls = 0 /\ meta.state = "ok"

C12_HydratedExactly ==
    JustHydrated =>
        /\ \A k \in Keys : versions[k] = IF k \in meta.versions /\ Persisted(vfile[k]) THEN vfile[k] ELSE NoVersion
        /\ \A n \in Names : names[n] = IF meta.names[n] \in KeysOf(versions) THEN meta.names[n] ELSE NoKey

\* A catalog of two keys was hydrated: the file of the one "latest" names
\* could not be read, the other version is there and the name is not.
C12_Witness ==
    /\ JustHydrated
    /\ meta.versions = Keys
    /\ meta.names[TAG_LATEST] # NoKey
    /\ ~Persisted(vfile[meta.names[TAG_LATEST]])
    /\ KeysOf(versions) # {}
    /\ names = NoNames

(***************************************************************************)
(* C13, as claimed. Hydration of a catalog sends exactly one value on the  *)
(* watch channel, as its last step, after the versions and the names are   *)
(* installed and before the first update pass: the set of hydrated keys.   *)
(***************************************************************************)
HydrationEnds == pc = "h_names" /\ pc' = "tick"

C13_HydrationSendsOne == [][HydrationEnds => sent' = <<KeysOf(versions')>>]_vars

(***************************************************************************)
(* C13, amended. Nothing is sent while hydration runs; its last step,      *)
(* after the versions and the names are installed and before the first     *)
(* update pass, sends one value, the set of hydrated keys, when that set   *)
(* is not empty, and sends nothing when it is empty (the channel keeps its *)
(* initial, empty value). Hydration without a catalog sends nothing.       *)
(***************************************************************************)
C13_HydrationSendsKeys ==
    [][/\ (pc \in {"hydrate", "h_insert", "h_names"}) => (sent = <<>> /\ channel = {})
       /\ (pc \in {"hydrate", "h_insert"}) => UNCHANGED <<channel, sent>>
       /\ HydrationEnds =>
            /\ UNCHANGED versions
            /\ channel' = KeysOf(versions)
            /\ sent' = IF KeysOf(versions) # {} THEN <<KeysOf(versions)>> ELSE <<>>]_vars

\* Hydration has just sent the two keys of its catalog, "latest" installed.
C13_Witness ==
    /\ JustHydrated
    /\ sent = <<Keys>>
    /\ KeysOf(versions) = Keys
    /\ names[TAG_LATEST] \in Keys

(***************************************************************************)
(* C14. When L + 1 is a value of the limit's type, every index is asked    *)
(* for L + 1 results and more_results is set exactly when the sheets that  *)
(* were searched have more than L matches in all; and when it is set, L    *)
(* results are returned and the offsets, the count of returned results per *)
(* sheet, sum to L.                                                        *)
(***************************************************************************)
RECURSIVE Sum(_, _)
Sum(f, S) == IF S = {} THEN 0 ELSE LET x == CHOOSE x \in S : TRUE IN f[x] + Sum(f, S \ {x})

Matches == [s \in Sheets |-> IF outcomes[s].kind = "Ok" /\ \E i \in 1..Len(asked) : asked[i].sheet = s THEN Len(outcomes[s].scores) ELSE 0]

C14_MoreIffMore ==
    (q_pc = "done" /\ ret.kind = "Ok" /\ L < U32Max) =>
        /\ \A i \in 1..Len(asked) : asked[i].limit = L + 1
        /\ ret.more_results <=> Sum(Matches, Sheets) > L
        /\ ret.more_results => (Len(ret.results) = L /\ Sum(ret.offsets, Sheets) = L)

\* Two sheets with two matches each and a limit of two: four matches, two
\* results returned, more_results set.
C14_Witness ==
    /\ q_pc = "done"
    /\ ret.kind = "Ok"
    /\ L = 2
    /\ \A s \in Sheets : Matches[s] = 2
    /\ ret.more_results
    /\ Len(ret.results) = 2

(***************************************************************************)
(* C15. The list search returns is in non-increasing order of score, and   *)
(* it is the same list in whatever order the sheets were visited: the one  *)
(* a visit in the order of the excel list returns for the same arguments,  *)
(* configuration and index contents.                                       *)
(***************************************************************************)
\* The sheets of the call, in the order of the excel list.
ListOrder == IF request.sheet_filter.some THEN SelectSeq(ExcelList, LAMBDA s : s \in request.sheet_filter.names) ELSE ExcelList

\* The results of the sheets of `order`, visited in that order.
RECURSIVE Gather(_)
Gather(order) ==
    IF order = <<>> THEN <<>>
    ELSE (IF outcomes[Head(order)].kind = "Ok"
          THEN Tagged(Head(order), IndexSearch(outcomes[Head(order)].scores, result_limit))
          ELSE <<>>) \o Gather(Tail(order))

Sorted(rs) == \A i, j \in 1..Len(rs) : i <= j => rs[i].score >= rs[j].score

C15_SameListAnyOrder ==
    (q_pc = "done" /\ ret.kind = "Ok") =>
        /\ Sorted(ret.results)
        /\ ret.results = Truncate(SortBy(Gather(ListOrder)), limit)

(***************************************************************************)
(* C16. A sheet of the fan-out that yields an error other than Failure and *)
(* QuerySchemaMismatch adds no results and one warning, the warning names  *)
(* the sheet, and the call goes on to the other sheets.                    *)
(***************************************************************************)
OtherError == q_pc = "fold" /\ sheet_names # <<>> /\ outcomes[Head(sheet_names)].kind \in OtherKinds

Mentions(warning, name) == \E i \in 1..Len(warning) : warning[i] = name

C16_OtherErrorWarnsBySheet ==
    [][OtherError =>
        /\ index_results'.value = index_results.value
        /\ Len(index_results'.warnings) = Len(index_results.warnings) + 1
        /\ Mentions(index_results'.warnings[Len(index_results'.warnings)], Head(sheet_names))
        /\ q_pc' = "fold"
        /\ ret' = ret]_vars


(***************************************************************************)
(* C17. While Search::start runs, is not cancelled and no ingest fails,    *)
(* every key of the watch channel's current value is eventually in a key   *)
(* list handed to the provider's ingest: a value sent while an ingest is   *)
(* awaited, or between subscribe and the first ingest, is not lost.        *)
(***************************************************************************)
Passed(k) == \E i \in 1..Len(ingested) : k \in ingested[i]

StartFailed == start_pc = "failed"

C17_KeysIngested ==
    ([]~cancel /\ []~StartFailed) => \A k \in Keys : (k \in channel) ~> Passed(k)

\* A second ingest was handed a key the first one had not been handed:
\* its value was sent after the first borrow.
C17_Witness ==
    /\ ~cancel
    /\ start_pc = "select"
    /\ Len(ingested) >= 2
    /\ ingested[1] # {}
    /\ \E k \in channel : k \notin ingested[1] /\ Passed(k)


(***************************************************************************)
(* C18. Once the token is cancelled, Search::start leaves its loop and     *)
(* returns Ok without starting another ingest: its select! does not take   *)
(* the branch of receiver.changed() any more.                              *)
(***************************************************************************)
Returned == start_pc = "returned"

SheetFails == \E s \in list : sheet_results[s] = "Err"

C19_FailureInstallsNothing == [][SheetFails => indices' = indices /\ v_pc' # "done"]_vars

\* A pass has ended on a failed sheet after another sheet's index had been
\* put into the local map; the version has the indices it had.
C19_Witness ==
    /\ SheetFails
    /\ v_pc = "panicked"
    /\ v_indices # {}
    /\ indices.some

(***************************************************************************)
(* C20. The index directories of two distinct sheet names of one version   *)
(* are distinct, also for names that contain the text "!DIR!": no two      *)
(* entries of the map an ingest pass builds have the same path.            *)
(***************************************************************************)
C20_PathsDistinct == \A a, b \in v_indices : a.sheet # b.sheet => a.path # b.path


(***************************************************************************)
(* C21. merge of two Structs yields a Struct over the union of their keys: *)
(* a key of one side keeps its value, a shared key maps to None when       *)
(* either side is None, and to the merge of the two children otherwise;    *)
(* merge of two Arrays yields an Array of None when either child is None,  *)
(* and of the merge of the children otherwise. Parsing a group of members  *)
(* joined by commas yields the merge of what its members parse to.         *)
(***************************************************************************)
Merged == f_pc = "done" /\ raw = <<>>

Parsed == f_pc = "done" /\ raw # <<>>

IsFilter(v) == v.kind \in {"Struct", "Array"}

ChildLaw(t, s, out) ==
    IF t = None \/ s = None THEN out = None ELSE IsFilter(out) /\ out = Merge(t, s)

StructLaw(t, s, out) ==
    /\ out.kind = "Struct"
    /\ DOMAIN out.fields = DOMAIN t.fields \cup DOMAIN s.fields
    /\ \A k \in DOMAIN out.fields :
        IF k \notin DOMAIN s.fields THEN out.fields[k] = t.fields[k]
        ELSE IF k \notin DOMAIN t.fields THEN out.fields[k] = s.fields[k]
        ELSE ChildLaw(t.fields[k], s.fields[k], out.fields[k])

ArrayLaw(t, s, out) ==
    /\ out.kind = "Array"
    /\ ChildLaw(t.child, s.child, out.child)

\* The string is a group, a comma and a last member, each of which parses.
SplitsAt(i) ==
    /\ raw[i] = ","
    /\ Deserialize(SubSeq(raw, 1, i - 1)).kind = "Ok"
    /\ FilterParser(Drop(raw, i)).kind = "Ok"
    /\ FilterParser(Drop(raw, i)).rest = <<>>

C21_MergeLaw ==
    /\ (Merged /\ target.kind = "Struct" /\ source.kind = "Struct") => StructLaw(target, source, f_out.value)
    /\ (Merged /\ target.kind = "Array" /\ source.kind = "Array") => ArrayLaw(target, source, f_out.value)
    /\ Parsed => \A i \in 1..Len(raw) : SplitsAt(i) =>
            f_out.value = Merge(Deserialize(SubSeq(raw, 1, i - 1)).value, FilterParser(Drop(raw, i)).value)

(***************************************************************************)
(* C22. Where merge is defined it is commutative: merge(a, b) equals       *)
(* merge(b, a); and a group of two members parses to the same value in     *)
(* either order of its members.                                            *)
(***************************************************************************)
Member(input) == FilterParser(input).kind = "Ok" /\ FilterParser(input).rest = <<>>

Swapped(i) == Drop(raw, i) \o <<",">> \o SubSeq(raw, 1, i - 1)

C22_MergeCommutes ==
    /\ (Merged /\ f_out.kind = "Ok") => f_out.value = Merge(source, target)
    /\ Parsed => \A i \in 1..Len(raw) :
            (raw[i] = "," /\ Member(SubSeq(raw, 1, i - 1)) /\ Member(Drop(raw, i)))
                => f_out = Deserialize(Swapped(i))

\* Two different Structs were merged that share a key with a filter on
\* both sides.
C22_Witness ==
    /\ Merged
    /\ f_out.kind = "Ok"
    /\ target # source
    /\ target.kind = "Struct"
    /\ source.kind = "Struct"
    /\ \E k \in DOMAIN target.fields \cap DOMAIN source.fields :
            /\ target.fields[k] # None
            /\ source.fields[k] # None
            /\ target.fields[k] # source.fields[k]

(***************************************************************************)
(* C23. A merge of a Struct with an Array, at the top or below a shared    *)
(* key, does not abort the parse: Deserialize does not panic.              *)
(***************************************************************************)
C23_NoAbort == Parsed => f_out.kind # "Panic"


(***************************************************************************)
(* C24. No task of the manager holds a guard of the versions or names      *)
(* lock while it is suspended at an await, nor when it hands file I/O to   *)
(* a blocking task.                                                        *)
(***************************************************************************)
Suspended(t) == Running(t) /\ Current(t).op \in {"await", "spawn"}

C24_NoGuardAtAwait == \A t \in Tasks : Suspended(t) => held[t] = NoGuards

\* start_inner is suspended at the try_join! of an update pass while a
\* set_names call holds the names write guard.
C24_Witness ==
    /\ Suspended("start")
    /\ Current("start").line = 213
    /\ held["set_names"]["names.write"] > 0

(***************************************************************************)
(* C29. The tasks of the manager do not deadlock on the two locks, also    *)
(* with a lock that makes readers wait for a waiting writer: whenever a    *)
(* task is running, some task can take its next step; a task that          *)
(* acquires the versions lock holds no guard of the names lock, except     *)
(* hydrate in its call of broadcast; and that read of broadcast is granted *)
(* at once, no writer holding or waiting for the versions lock.            *)
(***************************************************************************)
Acquiring(t) == Running(t) /\ Current(t).op = "acquire"

\* A writer waits for the lock.
WriterWaits(lock) == \E t \in Tasks : Acquiring(t) /\ Current(t).guard = WriteOf(lock) /\ ~Grants(WriteOf(lock))

\* The guard is granted even when readers queue behind waiting writers.
GrantsFairly(g) == Grants(g) /\ (g = ReadOf(LockOf(g)) => ~WriterWaits(LockOf(g)))

CanStep(t) == Running(t) /\ (Acquiring(t) => GrantsFairly(Current(t).guard))

HoldsNames(t) == held[t]["names.read"] > 0 \/ held[t]["names.write"] > 0

HydrateBroadcasts(t) == t = "start" /\ Acquiring(t) /\ Current(t).line = 372 /\ held[t]["names.write"] > 0

C29_NoDeadlock ==
    /\ (\E t \in Tasks : Running(t)) => \E t \in Tasks : CanStep(t)
    /\ \A t \in Tasks : (Acquiring(t) /\ LockOf(Current(t).guard) = "versions" /\ HoldsNames(t)) => HydrateBroadcasts(t)
    /\ \A t \in Tasks : HydrateBroadcasts(t) => GrantsFairly(Current(t).guard)

\* hydrate is about to call broadcast, holding its two guards, while a
\* set_names call waits for the names lock and a reader for its lock.
C29_Witness ==
    /\ HydrateBroadcasts("start")
    /\ held["start"]["versions.read"] > 0
    /\ Acquiring("set_names")
    /\ ~Grants(Current("set_names").guard)
    /\ Acquiring("reader")


(***************************************************************************)
(* C25. Version::search, reading the indices cell while Version::ingest    *)
(* runs, finds no map or a map with an Index for every sheet of the        *)
(* version, never a map partly filled; and the cell is written once in a   *)
(* pass, when every future has completed and the pass returns Ok.          *)
(***************************************************************************)
Complete(cell) == cell.some => SheetsOf(cell.map) = list

HasRead == x_pc \in {"running", "done", "panicked"}

C25_CompleteOrNone ==
    /\ [](HasRead => Complete(observed))
    /\ [][indices' # indices => (v_pc = "next" /\ futures = {} /\ v_pc' = "done")]_vars

\* A search has read the cell while a pass had put the index of a sheet,
\* and not yet of every sheet, into its local map: it found no map.
C25_Witness ==
    /\ x_pc = "panicked"
    /\ ~observed.some
    /\ v_pc = "next"
    /\ v_indices # {}
    /\ futures # {}

InMemory == PersistedMetadata(KeysOf(versions), names)

C27_NoStaleCatalog ==
    [][(u_mtask = "pending" /\ u_mtask' = "ok" /\ meta = InMemory) => meta' = meta]_vars

(***************************************************************************)
(* C28. When a write of metadata.json has completed, every key of its      *)
(* versions field has a completely written version-<key>.json.             *)
(***************************************************************************)
C28_CatalogKeysPersisted ==
    [][(meta' # meta /\ meta'.state = "ok") => \A k \in meta'.versions : Persisted(vfile'[k])]_vars


(***************************************************************************)
(* C30. Once an ingest called by Search::start has returned an error       *)
(* (a version not provided, a sheet list or sheet that cannot be read, or  *)
(* an error of the provider's ingest), start has returned it: it takes no  *)
(* further step, its receiver marks no later value seen, and no later      *)
(* broadcast is ingested by that call.                                     *)
(***************************************************************************)
C30_ErrorEndsStart ==
    [][StartFailed => (start_pc' = start_pc /\ receiver' = receiver /\ ingested' = ingested)]_vars

\* start has failed, and the manager has broadcast a value since that the
\* receiver has not seen and that was not handed to an ingest.
C30_Witness ==
    /\ StartFailed
    /\ HasChanged(receiver, ChannelVersion(sent))
    /\ \A i \in 1..Len(ingested) : ingested[i] # channel


(***************************************************************************)
(* C31. For every limit, limit_default and limit_max of the limit's type,  *)
(* result_limit = min(limit or limit_default, limit_max) + 1 is computed   *)
(* within that type: Search::search does not panic on the addition, and    *)
(* the result_limit it goes on with is strictly greater than the limit.    *)
(***************************************************************************)
C31_ResultLimitExceedsLimit ==
    /\ ret.kind # "panic"
    /\ q_pc = "fold" => result_limit > limit

====
